---- MODULE Spec2Model ----
(***************************************************************************)
(* Holder aggregation and distribution metrics of wallet_tracker.          *)
(*                                                                         *)
(* The repository holds two drivers around the same core:                  *)
(*   "dune"    src/scripts/pull-holders.js  (processChain, threshold 0)    *)
(*   "moralis" src/unnamed/part_000         (fetchChainHolders, 1,000)     *)
(*                                                                         *)
(* Amounts are integers in units of 500 TEL, so 1,000 TEL is 2 and the     *)
(* mega-holder threshold of 20,000,000,000 TEL is 40,000,000.  JavaScript  *)
(* Numbers that are not finite are the two reserved values Infinity and    *)
(* NaN below; arithmetic on finite amounts is exact.  The metrics fields   *)
(* percentage and stdDev are not modelled.                                 *)
(***************************************************************************)
EXTENDS Integers, Sequences, FiniteSets, TLC

VARIABLES
  variant,       \* which driver runs: "dune" or "moralis"
  source,        \* what the indexing service holds: the rows of every chain
  chainResults,  \* chainResults of main: chain key -> ChainAggregate
  combined,      \* the CombinedAggregate, once built: <<>> or <<aggregate>>
  pc,            \* where the run stands
  apiKey,        \* whether the API key is in the environment
  clock,         \* the wall clock, read by new Date()
  file,          \* the output file: <<>> when absent, else <<contents>>
  duneRows,      \* dune: the rows fetchResults has collected
  offset,        \* the offset (dune) or cursor (moralis) of the next page
  polls,         \* dune: status polls made by waitForCompletion
  cur,           \* moralis: the index in ChainOrder of the chain being fetched
  chainAcc,      \* moralis: the accumulators of the chain being fetched
  runs           \* invocations of the script so far

coreVars == <<variant, source, chainResults, combined>>

runVars == <<pc, apiKey, clock, file, duneRows, offset, polls, cur, chainAcc, runs>>

vars == <<variant, source, chainResults, combined,
          pc, apiKey, clock, file, duneRows, offset, polls, cur, chainAcc, runs>>

(***************************************************************************)
(* Bounds                                                                  *)
(***************************************************************************)
MaxRows == 2
BulkMargin == 1
MaxRunRows == 2
MaxPageRows == 1
MaxPolls == 1
MaxClock == 1
MaxRuns == 2

(***************************************************************************)
(* Numbers                                                                 *)
(***************************************************************************)
Infinity == 2000000000
NaN == 2000000001

IsNaN(x) == x = NaN

Add(a, b) ==
  IF a = NaN \/ b = NaN THEN NaN
  ELSE IF a = Infinity \/ b = Infinity THEN Infinity
  ELSE a + b

Gt(a, b) == a # NaN /\ b # NaN /\ a > b
Ge(a, b) == a # NaN /\ b # NaN /\ a >= b
Lt(a, b) == a # NaN /\ b # NaN /\ a < b

MEGA_HOLDER_THRESHOLD == 40000000

RETAIL_THRESHOLD(v) == IF v = "dune" THEN 0 ELSE 2

\* Number(...) / parseFloat(...) on the balance texts the model feeds in.
ToNumber(raw) ==
  CASE raw = "abc" -> NaN
    [] raw = "Infinity" -> Infinity
    [] raw = "0" -> 0
    [] raw = "500" -> 1
    [] raw = "1000" -> 2
    [] raw = "10000" -> 20
    [] raw = "20000000000" -> MEGA_HOLDER_THRESHOLD
    [] raw = "20000000500" -> MEGA_HOLDER_THRESHOLD + 1

(***************************************************************************)
(* Addresses: strings as sequences of characters                          *)
(***************************************************************************)
Lower(c) ==
  CASE c = "A" -> "a"
    [] c = "B" -> "b"
    [] c = "C" -> "c"
    [] c = "D" -> "d"
    [] c = "X" -> "x"
    [] OTHER -> c

toLowerCase(s) == [i \in 1..Len(s) |-> Lower(s[i])]

startsWith(s, p) == Len(s) >= Len(p) /\ SubSeq(s, 1, Len(p)) = p

\* null and the empty string are both the empty sequence: both are falsy.
normalizeAddress(value) ==
  IF value = <<>> THEN <<>>
  ELSE IF startsWith(value, <<"0", "x">>) \/ startsWith(value, <<"0", "X">>)
    THEN toLowerCase(value)
  ELSE IF startsWith(value, <<"\\", "x">>) \/ startsWith(value, <<"\\", "X">>)
    THEN <<"0", "x">> \o toLowerCase(SubSeq(value, 3, Len(value)))
  ELSE <<"0", "x">> \o toLowerCase(value)

\* The address a row is classified under.
RowAddress(v, raw) == IF v = "dune" THEN normalizeAddress(raw) ELSE toLowerCase(raw)

ExclusionsConfig == {<<"0", "x", "A", "B">>}

exclusionSet == {toLowerCase(addr) : addr \in ExclusionsConfig}

ChainOrder == <<"ethereum", "polygon">>

Chains == {ChainOrder[i] : i \in 1..Len(ChainOrder)}

ChainLabel(c) == IF c = "ethereum" THEN "Ethereum" ELSE "Polygon"

(***************************************************************************)
(* Metrics                                                                 *)
(***************************************************************************)
Min(a, b) == IF a <= b THEN a ELSE b

TopNs == <<10, 25, 50, 100>>

\* Every loop over a list is unfolded the same way: the loop over a list of
\* two or more is the loop over its first half followed, from the state that
\* one leaves, by the loop over its second half.  The test "first = first" has
\* the state left by the first half evaluated before the second half starts,
\* which keeps the evaluation of a long loop shallow.

\* hs.reduce((sum, h) => sum + h.balance, sum)
RECURSIVE ReduceBalances(_, _)
ReduceBalances(sum, hs) ==
  IF hs = <<>> THEN sum
  ELSE IF Len(hs) = 1 THEN Add(sum, hs[1].balance)
  ELSE LET first == ReduceBalances(sum, SubSeq(hs, 1, Len(hs) \div 2))
       IN IF first = first
            THEN ReduceBalances(first, SubSeq(hs, Len(hs) \div 2 + 1, Len(hs)))
            ELSE first

SumBalances(hs) == ReduceBalances(0, hs)

TopSlice_OffByOne(holders, n) == SubSeq(holders, 1, Min(n - 1, Len(holders)))

\* holders.slice(0, n)
TopSlice(holders, n) == SubSeq(holders, 1, Min(n, Len(holders)))

SortAsc_Unsorted(values) == values

\* x placed behind the values that are at most x.
InsertAsc(sorted, x) ==
  LET p == Cardinality({i \in 1..Len(sorted) : sorted[i] <= x})
  IN SubSeq(sorted, 1, p) \o <<x>> \o SubSeq(sorted, p + 1, Len(sorted))

RECURSIVE SortAscInto(_, _)
SortAscInto(sorted, values) ==
  IF values = <<>> THEN sorted
  ELSE IF Len(values) = 1 THEN InsertAsc(sorted, values[1])
  ELSE LET first == SortAscInto(sorted, SubSeq(values, 1, Len(values) \div 2))
       IN IF first = first
            THEN SortAscInto(first, SubSeq(values, Len(values) \div 2 + 1, Len(values)))
            ELSE first

\* [...values].sort((a, b) => a - b)
SortAsc(values) == SortAscInto(<<>>, values)

\* values.reduce((sum, value) => sum + value, sum)
RECURSIVE ReduceValues(_, _)
ReduceValues(sum, values) ==
  IF values = <<>> THEN sum
  ELSE IF Len(values) = 1 THEN Add(sum, values[1])
  ELSE LET first == ReduceValues(sum, SubSeq(values, 1, Len(values) \div 2))
       IN IF first = first
            THEN ReduceValues(first, SubSeq(values, Len(values) \div 2 + 1, Len(values)))
            ELSE first

SumValues(values) == ReduceValues(0, values)

\* cumulative after the rounds lo..hi (counted from 1) of the loop
\* cumulative += (n - i) * sorted[i]
RECURSIVE CumulativeLoop(_, _, _, _)
CumulativeLoop(cumulative, sorted, lo, hi) ==
  IF lo > hi THEN cumulative
  ELSE IF lo = hi THEN cumulative + (Len(sorted) - (lo - 1)) * sorted[lo]
  ELSE LET first == CumulativeLoop(cumulative, sorted, lo, (lo + hi) \div 2)
       IN IF first = first
            THEN CumulativeLoop(first, sorted, (lo + hi) \div 2 + 1, hi)
            ELSE first

Cumulative(sorted) == CumulativeLoop(0, sorted, 1, Len(sorted))

\* The coefficient as the fraction num / den, the value of
\* (n + 1 - (2 * cumulative) / totalSum) / n.
calculateGiniCoefficient(values) ==
  IF Len(values) = 0 THEN [num |-> 0, den |-> 1]
  ELSE LET sorted == SortAsc(values)
           n == Len(sorted)
           totalSum == SumValues(sorted)
       IN IF totalSum = 0 THEN [num |-> 0, den |-> 1]
          ELSE [num |-> (n + 1) * totalSum - 2 * Cumulative(sorted),
                den |-> n * totalSum]

Brackets ==
  << [min |-> 2, max |-> 20, label |-> "1K-10K"],
     [min |-> 20, max |-> 200, label |-> "10K-100K"],
     [min |-> 200, max |-> 2000, label |-> "100K-1M"],
     [min |-> 2000, max |-> 20000, label |-> "1M-10M"],
     [min |-> 20000, max |-> 200000, label |-> "10M-100M"],
     [min |-> 200000, max |-> Infinity, label |-> "100M+"] >>

InBracket_Inclusive(balance, bracket) ==
  Ge(balance, bracket.min) /\ Ge(bracket.max, balance)

InBracket(balance, bracket) == Ge(balance, bracket.min) /\ Lt(balance, bracket.max)

calculateDistribution(holders) ==
  [b \in 1..Len(Brackets) |->
    LET inBracket == SelectSeq(holders, LAMBDA h : InBracket(h.balance, Brackets[b]))
    IN [label |-> Brackets[b].label,
        count |-> Len(inBracket),
        totalBalance |-> SumBalances(inBracket)]]

computeMetrics(holders, totalRetailSupply) ==
  [top |-> [i \in 1..Len(TopNs) |->
             [count |-> Min(TopNs[i], Len(holders)),
              balance |-> SumBalances(TopSlice(holders, TopNs[i]))]],
   gini |-> calculateGiniCoefficient([i \in 1..Len(holders) |-> holders[i].balance]),
   distribution |-> calculateDistribution(holders)]

(***************************************************************************)
(* Per-chain aggregation                                                   *)
(***************************************************************************)
EmptyAcc ==
  [holders |-> <<>>, excludedAddresses |-> <<>>, excludedBalance |-> 0, totalProcessed |-> 0]

\* Set.add on a set kept in insertion order.
SetAdd(seq, x) == IF \E i \in 1..Len(seq) : seq[i] = x THEN seq ELSE Append(seq, x)

IsExcluded_MegaOnly(address, balance) == Gt(balance, MEGA_HOLDER_THRESHOLD)

IsExcluded(address, balance) ==
  address \in exclusionSet \/ Gt(balance, MEGA_HOLDER_THRESHOLD)

IsRetail_Strict(v, balance) == Gt(balance, RETAIL_THRESHOLD(v))

IsRetail(v, balance) == Ge(balance, RETAIL_THRESHOLD(v))

\* The retail threshold tested ahead of the exclusion.
ClassifyRow_ThresholdFirst(v, label, acc, row) ==
  LET address == RowAddress(v, row.address)
      balance == ToNumber(row.balance)
  IN IF address = <<>> \/ IsNaN(balance) THEN acc
     ELSE LET counted == [acc EXCEPT !.totalProcessed = Add(@, balance)]
          IN IF ~Ge(balance, RETAIL_THRESHOLD(v)) THEN counted
             ELSE IF address \in exclusionSet \/ Gt(balance, MEGA_HOLDER_THRESHOLD)
               THEN [counted EXCEPT !.excludedAddresses = SetAdd(@, address),
                                    !.excludedBalance = Add(@, balance)]
             ELSE [counted EXCEPT !.holders =
                     Append(@, [address |-> address, balance |-> balance, chain |-> label])]

\* One iteration of the loop over a chain's rows.
ClassifyRow(v, label, acc, row) ==
  LET address == RowAddress(v, row.address)
      balance == ToNumber(row.balance)
  IN IF address = <<>> \/ IsNaN(balance) THEN acc
     ELSE LET counted == [acc EXCEPT !.totalProcessed = Add(@, balance)]
          IN IF IsExcluded(address, balance)
               THEN [counted EXCEPT !.excludedAddresses = SetAdd(@, address),
                                    !.excludedBalance = Add(@, balance)]
             ELSE IF IsRetail(v, balance)
               THEN [counted EXCEPT !.holders =
                       Append(@, [address |-> address, balance |-> balance, chain |-> label])]
             ELSE counted

\* The loop over a chain's rows, from the accumulators acc.
RECURSIVE ClassifyRows(_, _, _, _)
ClassifyRows(v, label, acc, rows) ==
  IF rows = <<>> THEN acc
  ELSE IF Len(rows) = 1 THEN ClassifyRow(v, label, acc, rows[1])
  ELSE LET first == ClassifyRows(v, label, acc, SubSeq(rows, 1, Len(rows) \div 2))
       IN IF first = first
            THEN ClassifyRows(v, label, first, SubSeq(rows, Len(rows) \div 2 + 1, Len(rows)))
            ELSE first

\* h placed behind every holder whose balance is at least h's: the sort is
\* stable, so equal balances keep their order of insertion.
InsertDesc(sorted, h) ==
  LET p == Cardinality({i \in 1..Len(sorted) : sorted[i].balance >= h.balance})
  IN SubSeq(sorted, 1, p) \o <<h>> \o SubSeq(sorted, p + 1, Len(sorted))

RECURSIVE SortDescInto(_, _)
SortDescInto(sorted, hs) ==
  IF hs = <<>> THEN sorted
  ELSE IF Len(hs) = 1 THEN InsertDesc(sorted, hs[1])
  ELSE LET first == SortDescInto(sorted, SubSeq(hs, 1, Len(hs) \div 2))
       IN IF first = first
            THEN SortDescInto(first, SubSeq(hs, Len(hs) \div 2 + 1, Len(hs)))
            ELSE first

\* holders.sort((a, b) => b.balance - a.balance)
SortDesc(hs) == SortDescInto(<<>>, hs)

\* The part of the aggregator that follows the classification loop.
FinishChain(chainKey, label, acc) ==
  LET holders == SortDesc(acc.holders)
      totalRetailSupply == SumBalances(holders)
  IN [key |-> chainKey,
      label |-> label,
      holders |-> holders,
      totalRetailSupply |-> totalRetailSupply,
      retailHolderCount |-> Len(holders),
      excludedAddresses |-> acc.excludedAddresses,
      excludedBalances |-> (chainKey :> acc.excludedBalance),
      totalProcessedByChain |-> (chainKey :> acc.totalProcessed),
      metrics |-> computeMetrics(holders, totalRetailSupply)]

processChain(v, chainKey, rows) ==
  FinishChain(chainKey, ChainLabel(chainKey),
              ClassifyRows(v, ChainLabel(chainKey), EmptyAcc, rows))

(***************************************************************************)
(* Cross-chain combination                                                 *)
(***************************************************************************)
\* The keys of chainResults in insertion order.
ResultKeys(results) == SelectSeq(ChainOrder, LAMBDA c : c \in DOMAIN results)

Relabel(holders, label) ==
  [i \in 1..Len(holders) |-> [holders[i] EXCEPT !.chain = label]]

RECURSIVE SetAddAll(_, _)
SetAddAll(seq, xs) ==
  IF xs = <<>> THEN seq
  ELSE SetAdd(SetAddAll(seq, SubSeq(xs, 1, Len(xs) - 1)), xs[Len(xs)])

\* (target[key] || 0) + value for every entry of a keyed mapping
MergeAdd(target, m) ==
  [k \in DOMAIN target \cup DOMAIN m |->
    IF k \in DOMAIN m
      THEN Add(IF k \in DOMAIN target THEN target[k] ELSE 0, m[k])
      ELSE target[k]]

EmptyMap == [k \in {} |-> 0]

\* The accumulators after the first n entries of chainResults.
RECURSIVE CombineLoop(_, _, _)
CombineLoop(results, keys, n) ==
  IF n = 0
    THEN [combinedHolders |-> <<>>, totalRetailSupply |-> 0, excludedAddresses |-> <<>>,
          excludedBalances |-> EmptyMap, totalProcessedByChain |-> EmptyMap]
  ELSE LET prev == CombineLoop(results, keys, n - 1)
           data == results[keys[n]]
       IN [combinedHolders |-> prev.combinedHolders \o Relabel(data.holders, data.label),
           totalRetailSupply |-> Add(prev.totalRetailSupply, data.totalRetailSupply),
           excludedAddresses |-> SetAddAll(prev.excludedAddresses, data.excludedAddresses),
           excludedBalances |-> MergeAdd(prev.excludedBalances, data.excludedBalances),
           totalProcessedByChain |->
             MergeAdd(prev.totalProcessedByChain, data.totalProcessedByChain)]

\* The combined list left as concatenated.
buildCombinedDataset_Unsorted(results) ==
  LET keys == ResultKeys(results)
      loop == CombineLoop(results, keys, Len(keys))
  IN [key |-> "combined",
      label |-> "Combined",
      holders |-> loop.combinedHolders,
      totalRetailSupply |-> loop.totalRetailSupply,
      retailHolderCount |-> Len(loop.combinedHolders),
      excludedAddresses |-> loop.excludedAddresses,
      excludedBalances |-> loop.excludedBalances,
      totalProcessedByChain |-> loop.totalProcessedByChain,
      metrics |-> computeMetrics(loop.combinedHolders, loop.totalRetailSupply)]

buildCombinedDataset(results) ==
  LET keys == ResultKeys(results)
      loop == CombineLoop(results, keys, Len(keys))
      combinedHolders == SortDesc(loop.combinedHolders)
  IN [key |-> "combined",
      label |-> "Combined",
      holders |-> combinedHolders,
      totalRetailSupply |-> loop.totalRetailSupply,
      retailHolderCount |-> Len(combinedHolders),
      excludedAddresses |-> loop.excludedAddresses,
      excludedBalances |-> loop.excludedBalances,
      totalProcessedByChain |-> loop.totalProcessedByChain,
      metrics |-> computeMetrics(combinedHolders, loop.totalRetailSupply)]

(***************************************************************************)
(* Inputs                                                                  *)
(***************************************************************************)
RawAddresses ==
  { <<>>, <<"0", "X", "A", "B">>, <<"\\", "x", "A", "B">>, <<"C", "D">> }

RawBalances == {"abc", "Infinity", "0", "500", "1000", "20000000000", "20000000500"}

Rows == [address : RawAddresses, balance : RawBalances]

\* source is an assignment of at most MaxRows rows to the chains.
IsShortSource(s) ==
  \E k \in 0..MaxRows : \E m \in 0..(MaxRows - k) :
    \E a \in [1..k -> Rows] : \E b \in [1..m -> Rows] :
      s = [c \in Chains |-> IF c = "ethereum" THEN a ELSE b]

\* i rows of 1,000 followed by j rows of 10,000, all of one plain address.
BulkRows(i, j) ==
  [k \in 1..(i + j) |->
    [address |-> <<"C", "D">>, balance |-> IF k <= i THEN "1000" ELSE "10000"]]

\* The list lengths within BulkMargin of the cut-offs of the top-N metrics.
BulkLens ==
  {TopNs[k] + d : k \in 1..Len(TopNs), d \in (0 - BulkMargin)..BulkMargin}

IsBulkSource(s) ==
  \E i \in BulkLens : \E j \in 0..2 : \E m \in 0..1 :
    s = [c \in Chains |-> IF c = "ethereum" THEN BulkRows(i, j) ELSE BulkRows(m, 0)]

(***************************************************************************)
(* The core applied to a set of rows per chain                             *)
(***************************************************************************)
InitCore ==
  /\ variant \in {"dune", "moralis"}
  /\ IsShortSource(source) \/ IsBulkSource(source)
  /\ chainResults = EmptyMap
  /\ combined = <<>>
  /\ pc = "core"
  /\ apiKey = TRUE
  /\ clock = 0
  /\ file = <<>>
  /\ duneRows = <<>>
  /\ offset = 0
  /\ polls = 0
  /\ cur = 0
  /\ chainAcc = EmptyAcc
  /\ runs = 0

\* chainResults[chainKey] = the aggregate of the chain's rows, in chain order.
AggregateChain ==
  /\ pc = "core"
  /\ combined = <<>>
  /\ \E i \in 1..Len(ChainOrder) :
       /\ ChainOrder[i] \notin DOMAIN chainResults
       /\ \A j \in 1..(i - 1) : ChainOrder[j] \in DOMAIN chainResults
       /\ chainResults' =
            chainResults @@ (ChainOrder[i] :> processChain(variant, ChainOrder[i], source[ChainOrder[i]]))
  /\ UNCHANGED <<variant, source, combined, runVars>>

Combine ==
  /\ pc = "core"
  /\ combined = <<>>
  /\ DOMAIN chainResults = Chains
  /\ combined' = <<buildCombinedDataset(chainResults)>>
  /\ UNCHANGED <<variant, source, chainResults, runVars>>

NextCore == AggregateChain \/ Combine

SpecCore == InitCore /\ [][NextCore]_vars

(***************************************************************************)
(* The snapshot                                                            *)
(***************************************************************************)
\* JSON.stringify writes a number that is not finite as null.
JsonNumber(x) ==
  IF x = NaN \/ x = Infinity THEN [null |-> TRUE, value |-> 0]
  ELSE [null |-> FALSE, value |-> x]

JsonMap(m) == [k \in DOMAIN m |-> JsonNumber(m[k])]

JsonAggregate(agg) ==
  [agg EXCEPT !.excludedBalances = JsonMap(@), !.totalProcessedByChain = JsonMap(@)]

\* The text of the payload: its members in the order of insertion.
Serialize(generatedAt, results, comb) ==
  [generatedAt |-> generatedAt,
   thresholds |-> [retail |-> RETAIL_THRESHOLD(variant), megaHolder |-> MEGA_HOLDER_THRESHOLD],
   totals |-> [totalSupply |-> "92577234366"],
   chains |-> [i \in 1..Len(ResultKeys(results)) |-> JsonAggregate(results[ResultKeys(results)[i]])],
   combined |-> JsonAggregate(comb),
   chainOrder |-> ChainOrder]

\* The end of main from buildCombinedDataset on: the snapshot is written unless
\* the file already holds the same text; io is what the file system does.
Assemble(results, io) ==
  LET comb == buildCombinedDataset(results)
      serialized == Serialize(clock, results, comb)
  IN /\ chainResults' = results
     /\ combined' = <<comb>>
     /\ IF io = "readError" THEN /\ pc' = "failed"
                                 /\ file' = file
        ELSE IF file = <<serialized>> THEN /\ pc' = "done"
                                           /\ file' = file
        ELSE IF io = "writeError" THEN /\ pc' = "failed"
                                       /\ file' = file
        ELSE /\ pc' = "done"
             /\ file' = <<serialized>>

IoOutcomes == {"ok", "readError", "writeError"}

(***************************************************************************)
(* The run: both drivers                                                   *)
(***************************************************************************)
RunRows ==
  { [address |-> <<"C", "D">>, balance |-> "1000"],
    [address |-> <<"C", "D">>, balance |-> "500"],
    [address |-> <<"0", "X", "A", "B">>, balance |-> "1000"] }

IsRunSource(s) ==
  \E k \in 0..MaxRunRows : \E m \in 0..MaxRunRows :
    \E a \in [1..k -> RunRows] : \E b \in [1..m -> RunRows] :
      s = [c \in Chains |-> IF c = "ethereum" THEN a ELSE b]

Init ==
  /\ variant \in {"dune", "moralis"}
  /\ IsRunSource(source)
  /\ chainResults = EmptyMap
  /\ combined = <<>>
  /\ pc = "load"
  /\ apiKey \in BOOLEAN
  /\ clock = 0
  /\ file = <<>>
  /\ duneRows = <<>>
  /\ offset = 0
  /\ polls = 0
  /\ cur = 0
  /\ chainAcc = EmptyAcc
  /\ runs = 1

\* The script is loaded: without the API key it exits; otherwise main starts
\* and reaches its first request.
Start ==
  /\ pc = "load"
  /\ IF ~apiKey THEN pc' = "failed" /\ cur' = cur
     ELSE IF variant = "dune" THEN pc' = "execute" /\ cur' = cur
     ELSE pc' = "chain" /\ cur' = 1
  /\ UNCHANGED <<coreVars, apiKey, clock, file, duneRows, offset, polls, chainAcc, runs>>

\* dune: executeQuery returns an execution id, or throws.
ExecuteQuery ==
  /\ pc = "execute"
  /\ \E ok \in BOOLEAN : pc' = IF ok THEN "wait" ELSE "failed"
  /\ UNCHANGED <<coreVars, apiKey, clock, file, duneRows, offset, polls, cur, chainAcc, runs>>

\* dune: one round of waitForCompletion.
PollStatus ==
  /\ pc = "wait"
  /\ \E state \in {"completed", "failed", "pending", "error"} :
       IF state = "completed" THEN pc' = "results" /\ polls' = polls
       ELSE IF state \in {"failed", "error"} THEN pc' = "failed" /\ polls' = polls
       ELSE IF polls >= MaxPolls THEN pc' = "failed" /\ polls' = polls
       ELSE pc' = "wait" /\ polls' = polls + 1
  /\ UNCHANGED <<coreVars, apiKey, clock, file, duneRows, offset, cur, chainAcc, runs>>

ChainTag(c) == IF c = "ethereum" THEN "Ethereum" ELSE "polygon"

LowerTag(tag) == IF tag = "Ethereum" THEN "ethereum" ELSE tag

Tagged(c) ==
  [i \in 1..Len(source[c]) |->
    [blockchain |-> ChainTag(c), address |-> source[c][i].address,
     balance |-> source[c][i].balance]]

\* dune: the rows of the query's result.
ResultRows == Tagged("ethereum") \o Tagged("polygon")

Page(all, from) == SubSeq(all, from + 1, Min(from + MaxPageRows, Len(all)))

\* dune: one round of fetchResults.
FetchResultsPage ==
  /\ pc = "results"
  /\ \E ok \in BOOLEAN :
       IF ~ok THEN pc' = "failed" /\ duneRows' = duneRows /\ offset' = offset
       ELSE LET pageRows == Page(ResultRows, offset)
                more == offset + Len(pageRows) < Len(ResultRows)
            IN /\ duneRows' = duneRows \o pageRows
               /\ offset' = IF more THEN offset + Len(pageRows) ELSE offset
               /\ pc' = IF more THEN "results" ELSE "process"
  /\ UNCHANGED <<coreVars, apiKey, clock, file, polls, cur, chainAcc, runs>>

\* rowsByChain[chainKey] || []
RowsByChain(all, chainKey) ==
  SelectSeq(all, LAMBDA row : LowerTag(row.blockchain) = chainKey)

\* dune: main after fetchResults, to its end.
ProcessRows ==
  /\ pc = "process"
  /\ IF duneRows = <<>>
       THEN /\ pc' = "failed"
            /\ UNCHANGED <<chainResults, combined, file>>
       ELSE \E io \in IoOutcomes :
              Assemble([c \in Chains |-> processChain(variant, c, RowsByChain(duneRows, c))], io)
  /\ UNCHANGED <<variant, source, apiKey, clock, duneRows, offset, polls, cur, chainAcc, runs>>

\* moralis: one round of the loop of fetchChainHolders.  The round that leaves
\* the loop also builds the chain's aggregate and lets main go on to the next
\* chain, or to the snapshot after the last one.
FetchOwnersPage ==
  /\ pc = "chain"
  /\ LET chainKey == ChainOrder[cur]
         results == Page(source[chainKey], offset)
         classified == ClassifyRows(variant, ChainLabel(chainKey), chainAcc, results)
         cursor == IF offset + Len(results) < Len(source[chainKey])
                     THEN offset + Len(results) ELSE 0
         lastBalance == ToNumber(results[Len(results)].balance)
         break == \/ results = <<>>
                  \/ cursor = 0
                  \/ ~IsNaN(lastBalance) /\ Lt(lastBalance, RETAIL_THRESHOLD(variant))
     IN IF break
          THEN /\ chainResults' =
                    chainResults @@ (chainKey :> FinishChain(chainKey, ChainLabel(chainKey), classified))
               /\ chainAcc' = EmptyAcc
               /\ offset' = 0
               /\ IF cur < Len(ChainOrder) THEN cur' = cur + 1 /\ pc' = "chain"
                  ELSE cur' = cur /\ pc' = "assemble"
          ELSE /\ chainAcc' = classified
               /\ offset' = cursor
               /\ UNCHANGED <<chainResults, cur, pc>>
  /\ UNCHANGED <<variant, source, combined, apiKey, clock, file, duneRows, polls, runs>>

\* moralis: fetchJson throws; main logs and rethrows.
FetchOwnersFail ==
  /\ pc = "chain"
  /\ pc' = "failed"
  /\ UNCHANGED <<coreVars, apiKey, clock, file, duneRows, offset, polls, cur, chainAcc, runs>>

\* moralis: main after the loop over the chains, to its end.
WriteSnapshot ==
  /\ pc = "assemble"
  /\ \E io \in IoOutcomes : Assemble(chainResults, io)
  /\ UNCHANGED <<variant, source, apiKey, clock, duneRows, offset, polls, cur, chainAcc, runs>>

\* Time passes.
Tick ==
  /\ pc # "core"
  /\ clock < MaxClock
  /\ clock' = clock + 1
  /\ UNCHANGED <<coreVars, pc, apiKey, file, duneRows, offset, polls, cur, chainAcc, runs>>

\* The script is invoked again on the same data, once the run before it ended.
Rerun ==
  /\ pc \in {"done", "failed"}
  /\ runs < MaxRuns
  /\ runs' = runs + 1
  /\ pc' = "load"
  /\ chainResults' = EmptyMap
  /\ combined' = <<>>
  /\ duneRows' = <<>>
  /\ offset' = 0
  /\ polls' = 0
  /\ cur' = 0
  /\ chainAcc' = EmptyAcc
  /\ UNCHANGED <<variant, source, apiKey, clock, file>>

Next ==
  \/ Start
  \/ ExecuteQuery
  \/ PollStatus
  \/ FetchResultsPage
  \/ ProcessRows
  \/ FetchOwnersPage
  \/ FetchOwnersFail
  \/ WriteSnapshot
  \/ Tick
  \/ Rerun

Spec == Init /\ [][Next]_vars

(***************************************************************************)
(* Vocabulary of the properties                                            *)
(***************************************************************************)
Range(seq) == {seq[i] : i \in 1..Len(seq)}

Count(seq, x) == Cardinality({i \in 1..Len(seq) : seq[i] = x})

Aggregated == DOMAIN chainResults

\* Every aggregate built so far: the chains' and the combined one.
Aggregates == {chainResults[c] : c \in Aggregated} \cup Range(combined)

AddrOf(c, i) == RowAddress(variant, source[c][i].address)

BalOf(c, i) == ToNumber(source[c][i].balance)

RowsOf(c) == 1..Len(source[c])

RowDropped(c, i) == AddrOf(c, i) = <<>> \/ BalOf(c, i) = NaN

RowExcluded(c, i) ==
  /\ ~RowDropped(c, i)
  /\ AddrOf(c, i) \in exclusionSet \/ BalOf(c, i) > MEGA_HOLDER_THRESHOLD

RowRetail(c, i) ==
  /\ ~RowDropped(c, i)
  /\ ~RowExcluded(c, i)
  /\ BalOf(c, i) >= RETAIL_THRESHOLD(variant)

RowSubThreshold(c, i) ==
  /\ ~RowDropped(c, i)
  /\ ~RowExcluded(c, i)
  /\ BalOf(c, i) < RETAIL_THRESHOLD(variant)

HolderOf(c, i) ==
  [address |-> AddrOf(c, i), balance |-> BalOf(c, i), chain |-> ChainLabel(c)]

\* The sum of the balances of the excluded rows lo..hi of chain c.
RECURSIVE ExcludedSum(_, _, _)
ExcludedSum(c, lo, hi) ==
  IF lo > hi THEN 0
  ELSE IF lo = hi THEN (IF RowExcluded(c, lo) THEN BalOf(c, lo) ELSE 0)
  ELSE Add(ExcludedSum(c, lo, (lo + hi) \div 2), ExcludedSum(c, (lo + hi) \div 2 + 1, hi))

(***************************************************************************)
(* C1: classification and its precedence                                   *)
(***************************************************************************)
\* C1 as stated: a row is dropped when its address is empty or its balance is
\* not a finite number, and only the other rows can be excluded or retail; so
\* excludedAddresses holds exactly the addresses of the finite-or-denylisted
\* rows that pass that test.
C1_DroppedWhenNotFinite ==
  \A c \in Aggregated :
    Range(chainResults[c].excludedAddresses) =
      {AddrOf(c, i) : i \in {k \in RowsOf(c) :
          RowExcluded(c, k) /\ BalOf(c, k) # Infinity}}

\* C1 amended: a row is dropped when its address is empty or its balance is
\* NaN; otherwise excluded when denylisted or above the mega-holder threshold
\* (an infinite balance included); otherwise retail when at least the retail
\* threshold; otherwise sub-threshold.  Excluded rows, and only they, put their
\* address in excludedAddresses and their balance in excludedBalance; retail
\* rows, and only they, become Holders.
C1_ClassificationPrecedence ==
  \A c \in Aggregated :
    LET agg == chainResults[c]
    IN /\ Range(agg.excludedAddresses) = {AddrOf(c, i) : i \in {k \in RowsOf(c) : RowExcluded(c, k)}}
       /\ agg.excludedBalances[c] = ExcludedSum(c, 1, Len(source[c]))
       /\ Range(agg.holders) = {HolderOf(c, i) : i \in {k \in RowsOf(c) : RowRetail(c, k)}}

\* A denylisted address below the retail threshold has been aggregated.
C1_Witness ==
  \E c \in Aggregated : \E i \in RowsOf(c) :
    /\ AddrOf(c, i) \in exclusionSet
    /\ BalOf(c, i) < RETAIL_THRESHOLD(variant)
    /\ AddrOf(c, i) \in Range(chainResults[c].excludedAddresses)

(***************************************************************************)
(* C2: bounds of a Holder                                                  *)
(***************************************************************************)
\* C2: in every chain aggregate and in the combined one, every Holder has
\* retailThreshold <= balance <= megaHolderThreshold and an address that is
\* not in the denylist.
C2_HolderBounds ==
  \A agg \in Aggregates : \A h \in Range(agg.holders) :
    /\ RETAIL_THRESHOLD(variant) <= h.balance
    /\ h.balance <= MEGA_HOLDER_THRESHOLD
    /\ h.address \notin exclusionSet

\* The combined aggregate has a Holder although the rows held a denylisted
\* address and a balance above the mega-holder threshold.
C2_Witness ==
  /\ combined # <<>>
  /\ combined[1].holders # <<>>
  /\ \E c \in Chains : \E i \in RowsOf(c) :
       ~RowDropped(c, i) /\ AddrOf(c, i) \in exclusionSet
  /\ \E c \in Chains : \E i \in RowsOf(c) :
       ~RowDropped(c, i) /\ BalOf(c, i) > MEGA_HOLDER_THRESHOLD

(***************************************************************************)
(* C3: accounting of the input rows                                        *)
(***************************************************************************)
\* C3 as stated: holders, excludedAddresses and the dropped rows account for
\* every input row of an aggregated chain exactly once, so their sizes add up
\* to the number of rows.
C3_ThreeWayAccounting ==
  \A c \in Aggregated :
    Len(chainResults[c].holders) + Len(chainResults[c].excludedAddresses)
      + Cardinality({i \in RowsOf(c) : RowDropped(c, i)}) = Len(source[c])

\* C3 amended: every input row is of exactly one of four classes (dropped,
\* excluded, retail, sub-threshold); holders has exactly one Holder per retail
\* row; excludedAddresses lists the address of every excluded row once, however
\* many rows carry it; dropped and sub-threshold rows add no entry.
C3_FourWayAccounting ==
  \A c \in Aggregated :
    LET agg == chainResults[c]
        retail == {i \in RowsOf(c) : RowRetail(c, i)}
        excluded == {i \in RowsOf(c) : RowExcluded(c, i)}
        dropped == {i \in RowsOf(c) : RowDropped(c, i)}
        sub == {i \in RowsOf(c) : RowSubThreshold(c, i)}
    IN /\ Cardinality(retail) + Cardinality(excluded)
            + Cardinality(dropped) + Cardinality(sub) = Len(source[c])
       /\ Len(agg.holders) = Cardinality(retail)
       /\ \A i \in retail :
            Count(agg.holders, HolderOf(c, i)) =
              Cardinality({k \in retail : HolderOf(c, k) = HolderOf(c, i)})
       /\ Len(agg.excludedAddresses) = Cardinality({AddrOf(c, i) : i \in excluded})
       /\ \A i \in excluded : Count(agg.excludedAddresses, AddrOf(c, i)) = 1

\* A chain with a sub-threshold row, two excluded rows of one address and a
\* retail row has been aggregated.
C3_Witness ==
  \E c \in Aggregated :
    /\ \E i \in RowsOf(c) : RowSubThreshold(c, i)
    /\ \E i \in RowsOf(c) : RowRetail(c, i) \/ RowExcluded(c, i)

(***************************************************************************)
(* C5: the combined holder list                                            *)
(***************************************************************************)
\* The sum of the balances of the holders lo..hi of hs.
RECURSIVE TotalBetween(_, _, _)
TotalBetween(hs, lo, hi) ==
  IF lo > hi THEN 0
  ELSE IF lo = hi THEN hs[lo].balance
  ELSE TotalBetween(hs, lo, (lo + hi) \div 2) + TotalBetween(hs, (lo + hi) \div 2 + 1, hi)

TotalOf(hs) == TotalBetween(hs, 1, Len(hs))

ChainOfLabel(label) == CHOOSE c \in Chains : ChainLabel(c) = label

\* C5: the combined holders are the chains' holder lists put together, no
\* holder lost, duplicated or merged and each under its own chain's label, in
\* non-increasing order of balance; retailHolderCount is the length of that
\* list and totalRetailSupply the sum of its balances.
C5_CombinedHolders ==
  combined # <<>> =>
    LET agg == combined[1]
        all == UNION {Range(chainResults[c].holders) : c \in Chains} \cup Range(agg.holders)
    IN /\ \A h \in all :
            /\ h.chain \in {ChainLabel(c) : c \in Chains}
            /\ Count(agg.holders, h) = Count(chainResults[ChainOfLabel(h.chain)].holders, h)
       /\ \A i \in 1..(Len(agg.holders) - 1) :
            agg.holders[i].balance >= agg.holders[i + 1].balance
       /\ agg.retailHolderCount = Len(agg.holders)
       /\ agg.totalRetailSupply = TotalOf(agg.holders)

\* Both chains contribute holders, and the later chain holds the larger one.
C5_Witness ==
  /\ combined # <<>>
  /\ chainResults["ethereum"].holders # <<>>
  /\ chainResults["polygon"].holders # <<>>
  /\ chainResults["polygon"].holders[1].balance
       > chainResults["ethereum"].holders[Len(chainResults["ethereum"].holders)].balance

(***************************************************************************)
(* C6: top-N                                                               *)
(***************************************************************************)
Max(a, b) == IF a >= b THEN a ELSE b

\* The sum of the k largest balances of hs, value by value.
RECURSIVE LargestSum(_, _, _)
LargestSum(hs, vals, k) ==
  IF vals = {} THEN 0
  ELSE LET v == CHOOSE x \in vals : TRUE
           above == Cardinality({i \in 1..Len(hs) : hs[i].balance > v})
           same == Cardinality({i \in 1..Len(hs) : hs[i].balance = v})
       IN v * Max(0, Min(same, k - above)) + LargestSum(hs, vals \ {v}, k)

\* C6: for every aggregate and every N of 10, 25, 50, 100: topN.count is
\* min(N, len(holders)), topN.balance is the sum of that many largest balances,
\* and the balances do not decrease with N and stay within totalRetailSupply.
C6_TopN ==
  \A agg \in Aggregates :
    LET top == agg.metrics.top
        n == Len(agg.holders)
    IN /\ \A i \in 1..Len(TopNs) :
            /\ (TopNs[i] <= n => top[i].count = TopNs[i])
            /\ (TopNs[i] > n => top[i].count = n)
            /\ top[i].balance =
                 LargestSum(agg.holders, {h.balance : h \in Range(agg.holders)}, top[i].count)
       /\ \A i \in 1..(Len(TopNs) - 1) : top[i].balance <= top[i + 1].balance
       /\ top[Len(TopNs)].balance <= agg.totalRetailSupply

\* An aggregate with more than 100 holders of different balances: every one
\* of top10, top25, top50 and top100 leaves holders out.
C6_Witness ==
  \E agg \in Aggregates :
    /\ Len(agg.holders) > 100
    /\ agg.holders[1].balance > agg.holders[Len(agg.holders)].balance
    /\ \A i \in 1..(Len(TopNs) - 1) :
         agg.metrics.top[i].balance < agg.metrics.top[i + 1].balance
    /\ agg.metrics.top[Len(TopNs)].balance < agg.totalRetailSupply

(***************************************************************************)
(* C7: distribution buckets                                                *)
(***************************************************************************)
RECURSIVE BucketTotal(_, _)
BucketTotal(dist, n) == IF n = 0 THEN 0 ELSE BucketTotal(dist, n - 1) + dist[n].totalBalance

RECURSIVE BucketCount(_, _)
BucketCount(dist, n) == IF n = 0 THEN 0 ELSE BucketCount(dist, n - 1) + dist[n].count

BucketsOf(agg) == agg.metrics.distribution

\* What C7 and its amendment share: the buckets' total is within
\* totalRetailSupply; the buckets count each holder of at least 1,000 once and
\* no holder below 1,000, which retailHolderCount and totalRetailSupply do count.
C7_Buckets(agg) ==
  /\ BucketTotal(BucketsOf(agg), Len(BucketsOf(agg))) <= agg.totalRetailSupply
  /\ BucketCount(BucketsOf(agg), Len(BucketsOf(agg))) =
       Cardinality({i \in 1..Len(agg.holders) : agg.holders[i].balance >= 2})
  /\ \A b \in 1..Len(BucketsOf(agg)) :
       BucketsOf(agg)[b].count =
         Cardinality({i \in 1..Len(agg.holders) :
            /\ agg.holders[i].balance >= Brackets[b].min
            /\ agg.holders[i].balance < Brackets[b].max})
  /\ agg.retailHolderCount = Len(agg.holders)
  /\ agg.totalRetailSupply = TotalOf(agg.holders)

\* C7 as stated: the buckets' total equals totalRetailSupply only if every
\* holder's balance is at least 1,000.
C7_EqualOnlyIfAllAboveFloor ==
  \A agg \in Aggregates :
    /\ C7_Buckets(agg)
    /\ BucketTotal(BucketsOf(agg), Len(BucketsOf(agg))) = agg.totalRetailSupply
         => \A h \in Range(agg.holders) : h.balance >= 2

\* C7 amended: the buckets' total equals totalRetailSupply only if every
\* holder's balance is 0 or at least 1,000.
C7_EqualOnlyIfZeroOrAboveFloor ==
  \A agg \in Aggregates :
    /\ C7_Buckets(agg)
    /\ BucketTotal(BucketsOf(agg), Len(BucketsOf(agg))) = agg.totalRetailSupply
         => \A h \in Range(agg.holders) : h.balance = 0 \/ h.balance >= 2

\* One aggregate holds a holder below 1,000 that no bucket counts, and a
\* holder on a bucket boundary.
C7_Witness ==
  \E agg \in Aggregates :
    /\ \E h \in Range(agg.holders) : h.balance = 1
    /\ \E h \in Range(agg.holders) : h.balance = 2
    /\ BucketTotal(BucketsOf(agg), Len(BucketsOf(agg))) < agg.totalRetailSupply

(***************************************************************************)
(* C8: Gini coefficient                                                    *)
(***************************************************************************)
\* C8: the coefficient of an aggregate's balances is 0 for an empty list and
\* for a list of sum 0, is 0 when all balances are equal, and otherwise lies
\* in [0, 1): as a fraction, 0 <= num < den with den = n * sum.
C8_GiniRange ==
  \A agg \in Aggregates :
    LET g == agg.metrics.gini
        n == Len(agg.holders)
        total == TotalOf(agg.holders)
    IN /\ (n = 0 \/ total = 0) => g = [num |-> 0, den |-> 1]
       /\ (n > 0 /\ total > 0) => (g.den = n * total /\ 0 <= g.num /\ g.num < g.den)
       /\ (\A i, j \in 1..n : agg.holders[i].balance = agg.holders[j].balance) => g.num = 0

\* An aggregate of three or more holders, not all equal, whose coefficient is
\* positive.
C8_Witness ==
  \E agg \in Aggregates :
    /\ Len(agg.holders) >= 3
    /\ agg.holders[1].balance > agg.holders[Len(agg.holders)].balance
    /\ agg.metrics.gini.num > 0

(***************************************************************************)
(* C10: holders against excludedAddresses                                  *)
(***************************************************************************)
\* C10: in every chain aggregate and in the combined one, no address is both
\* in holders and in excludedAddresses.
C10_HoldersDisjointFromExcluded ==
  \A agg \in Aggregates :
    {h.address : h \in Range(agg.holders)} \cap Range(agg.excludedAddresses) = {}

(***************************************************************************)
(* C4: a run repeated on the same data                                     *)
(***************************************************************************)
\* C4: the data never changes between runs, so a run that finds the file an
\* earlier run wrote produces the same text and leaves the file as it is.
C4_RerunKeepsFile ==
  [][(pc \in {"process", "assemble"} /\ pc' = "done" /\ file # <<>>) => file' = file]_vars

(***************************************************************************)
(* C9: when a run fails                                                    *)
(***************************************************************************)
\* C9: a run never fails with one chain's rows aggregated and another chain's
\* aggregation unfinished.
C9_NoFailureMidAggregation ==
  ~(/\ pc = "failed"
    /\ \E c \in Chains : c \in DOMAIN chainResults /\ source[c] # <<>>
    /\ \E c \in Chains : c \notin DOMAIN chainResults)

====
